---------------------------- MODULE Spec2Model ----------------------------
(***************************************************************************)
(* A model of goncurses (src/ncurses.go), a Go binding that forwards each  *)
(* call to the ncurses C library.  The state is the state those calls act  *)
(* on: the library's window structures (geometry, cursor, attributes,      *)
(* background, cells, per-line change ranges), the virtual and physical    *)
(* screens, the colour globals and pair table, the registered mouse mask   *)
(* and the input queue.  Go panics and C undefined behaviour end the       *)
(* program ("panicked", "crashed") or are a choice over their outcomes.    *)
(***************************************************************************)
EXTENDS Integers, Sequences, FiniteSets, TLC

(***************************************************************************)
(* Bounds of the model.                                                    *)
(***************************************************************************)
MaxOps == 3          \* calls in a run of the global functions
MaxLifeOps == 3      \* calls in a run that makes and deletes windows
MaxAttrOps == 3      \* calls in a run of the attribute functions
MaxDrawOps == 3      \* calls in a run of the drawing functions
MaxTextOps == 2      \* calls in a run that prints or reads text
MaxWins == 2         \* windows besides stdscr
MaxNames == 2        \* names in a variadic name list
MaxQueue == 3        \* characters typed before the end of the line
MaxLen == 3          \* largest n given to GetString

(***************************************************************************)
(* Bit operations on non-negative integers (Go's | and C's &, ~ within a   *)
(* mask).                                                                  *)
(***************************************************************************)
RECURSIVE BitOr(_, _)
BitOr(a, b) ==
    IF a = 0 THEN b
    ELSE IF b = 0 THEN a
    ELSE (IF a % 2 = 1 \/ b % 2 = 1 THEN 1 ELSE 0) + 2 * BitOr(a \div 2, b \div 2)

RECURSIVE BitAnd(_, _)
BitAnd(a, b) ==
    IF a = 0 \/ b = 0 THEN 0
    ELSE (IF a % 2 = 1 /\ b % 2 = 1 THEN 1 ELSE 0) + 2 * BitAnd(a \div 2, b \div 2)

\* a & ~b
RECURSIVE BitClear(_, _)
BitClear(a, b) ==
    IF a = 0 THEN 0
    ELSE IF b = 0 THEN a
    ELSE (IF a % 2 = 1 /\ b % 2 = 0 THEN 1 ELSE 0) + 2 * BitClear(a \div 2, b \div 2)

RECURSIVE Pow2(_)
Pow2(n) == IF n = 0 THEN 1 ELSE 2 * Pow2(n - 1)

\* bit i of a
Bit(a, i) == (a \div Pow2(i)) % 2 = 1

(***************************************************************************)
(* The attribute table (attrList) with ncurses.h's values: an attribute is *)
(* one bit above the 8 character bits and the 8 colour-pair bits.          *)
(***************************************************************************)
A_NORMAL == 0
A_STANDOUT == 65536
A_UNDERLINE == 131072
A_REVERSE == 262144
A_BLINK == 524288
A_DIM == 1048576
A_BOLD == 2097152
A_ALTCHARSET == 4194304
A_INVIS == 8388608
A_PROTECT == 16777216
A_CHARTEXT == 255
A_COLOR == 65280
AttrNames ==
    {"normal", "standout", "underline", "reverse", "blink", "dim", "bold",
     "protect", "invis", "altcharset", "chartext"}

\* Go's map index expression: the zero value for a key that is absent.
attrList(name) ==
    CASE name = "normal" -> A_NORMAL
      [] name = "standout" -> A_STANDOUT
      [] name = "underline" -> A_UNDERLINE
      [] name = "reverse" -> A_REVERSE
      [] name = "blink" -> A_BLINK
      [] name = "dim" -> A_DIM
      [] name = "bold" -> A_BOLD
      [] name = "protect" -> A_PROTECT
      [] name = "invis" -> A_INVIS
      [] name = "altcharset" -> A_ALTCHARSET
      [] name = "chartext" -> A_CHARTEXT
      [] OTHER -> 0

\* COLOR_PAIR(n)
COLOR_PAIR(n) == BitAnd(n * 256, A_COLOR)
PAIR_NUMBER(a) == BitAnd(a, A_COLOR) \div 256

(***************************************************************************)
(* The colour table (colorList).                                           *)
(***************************************************************************)
ColorNames == {"black", "red", "green", "yellow", "blue", "magenta", "cyan", "white"}

colorList(name) ==
    CASE name = "black" -> 0
      [] name = "red" -> 1
      [] name = "green" -> 2
      [] name = "yellow" -> 3
      [] name = "blue" -> 4
      [] name = "magenta" -> 5
      [] name = "cyan" -> 6
      [] name = "white" -> 7
      [] OTHER -> 0

(***************************************************************************)
(* The mouse-event table (mouseEvents): button b's event m is the bit      *)
(* m << 6 (b - 1); the modifiers are the bits of a fifth group.            *)
(***************************************************************************)
MouseNames ==
    {"button1-pressed", "button1-released", "button1-clicked",
     "button1-double-clicked", "button1-triple-clicked",
     "button2-pressed", "button2-released", "button2-clicked",
     "button2-double-clicked", "button2-triple-clicked",
     "button3-pressed", "button3-released", "button3-clicked",
     "button3-double-clicked", "button3-triple-clicked",
     "button4-pressed", "button4-released", "button4-clicked",
     "button4-double-clicked", "button4-triple-clicked",
     "shift", "ctrl", "alt", "all", "position"}

NCURSES_MOUSE_MASK(b, m) == m * Pow2(6 * (b - 1))

mouseEvents(name) ==
    CASE name = "button1-released" -> NCURSES_MOUSE_MASK(1, 1)
      [] name = "button1-pressed" -> NCURSES_MOUSE_MASK(1, 2)
      [] name = "button1-clicked" -> NCURSES_MOUSE_MASK(1, 4)
      [] name = "button1-double-clicked" -> NCURSES_MOUSE_MASK(1, 8)
      [] name = "button1-triple-clicked" -> NCURSES_MOUSE_MASK(1, 16)
      [] name = "button2-released" -> NCURSES_MOUSE_MASK(2, 1)
      [] name = "button2-pressed" -> NCURSES_MOUSE_MASK(2, 2)
      [] name = "button2-clicked" -> NCURSES_MOUSE_MASK(2, 4)
      [] name = "button2-double-clicked" -> NCURSES_MOUSE_MASK(2, 8)
      [] name = "button2-triple-clicked" -> NCURSES_MOUSE_MASK(2, 16)
      [] name = "button3-released" -> NCURSES_MOUSE_MASK(3, 1)
      [] name = "button3-pressed" -> NCURSES_MOUSE_MASK(3, 2)
      [] name = "button3-clicked" -> NCURSES_MOUSE_MASK(3, 4)
      [] name = "button3-double-clicked" -> NCURSES_MOUSE_MASK(3, 8)
      [] name = "button3-triple-clicked" -> NCURSES_MOUSE_MASK(3, 16)
      [] name = "button4-released" -> NCURSES_MOUSE_MASK(4, 1)
      [] name = "button4-pressed" -> NCURSES_MOUSE_MASK(4, 2)
      [] name = "button4-clicked" -> NCURSES_MOUSE_MASK(4, 4)
      [] name = "button4-double-clicked" -> NCURSES_MOUSE_MASK(4, 8)
      [] name = "button4-triple-clicked" -> NCURSES_MOUSE_MASK(4, 16)
      [] name = "ctrl" -> NCURSES_MOUSE_MASK(5, 1)
      [] name = "shift" -> NCURSES_MOUSE_MASK(5, 2)
      [] name = "alt" -> NCURSES_MOUSE_MASK(5, 4)
      [] name = "position" -> NCURSES_MOUSE_MASK(5, 8)
      [] name = "all" -> NCURSES_MOUSE_MASK(5, 8) - 1
      [] OTHER -> 0

(***************************************************************************)
(* fmt.Sprintf for the verbs %d and %s.  A string is a sequence of         *)
(* character codes; an argument is [t |-> "int", v |-> n] or               *)
(* [t |-> "string", v |-> s], the dynamic type Print reads with reflect.   *)
(***************************************************************************)
IntArg(n) == [t |-> "int", v |-> n]
StrArg(s) == [t |-> "string", v |-> s]

RECURSIVE Digits(_)
Digits(n) == IF n < 10 THEN <<48 + n>> ELSE Digits(n \div 10) \o <<48 + (n % 10)>>

\* strconv's decimal form of an int
Decimal(n) == IF n < 0 THEN <<45>> \o Digits(0 - n) ELSE Digits(n)

\* "%!v(type=value)": a verb applied to an operand of the wrong type
BadVerb(verb, arg) ==
    <<37, 33, verb, 40>>
      \o (IF arg.t = "int" THEN <<105, 110, 116, 61>> \o Decimal(arg.v)
          ELSE <<115, 116, 114, 105, 110, 103, 61>> \o arg.v)
      \o <<41>>

\* "%!v(MISSING)": a verb with no operand left
MissingVerb(verb) == <<37, 33, verb, 40, 77, 73, 83, 83, 73, 78, 71, 41>>

RECURSIVE ExtraList(_, _)
ExtraList(args, i) ==
    IF i > Len(args) THEN <<>>
    ELSE (IF args[i].t = "int" THEN <<105, 110, 116, 61>> \o Decimal(args[i].v)
          ELSE <<115, 116, 114, 105, 110, 103, 61>> \o args[i].v)
         \o (IF i < Len(args) THEN <<44, 32>> ELSE <<>>)
         \o ExtraList(args, i + 1)

\* "%!(EXTRA type=value, ...)": operands no verb consumed
Extra(args, i) ==
    IF i > Len(args) THEN <<>>
    ELSE <<37, 33, 40, 69, 88, 84, 82, 65, 32>> \o ExtraList(args, i) \o <<41>>

\* the text of one verb applied to one operand
Verb(verb, arg) ==
    CASE verb = 100 /\ arg.t = "int" -> Decimal(arg.v)
      [] verb = 115 /\ arg.t = "string" -> arg.v
      [] OTHER -> BadVerb(verb, arg)

\* the scan of the format from position i with operand a next
RECURSIVE SprintfFrom(_, _, _, _)
SprintfFrom(format, i, args, a) ==
    IF i > Len(format) THEN Extra(args, a)
    ELSE IF format[i] # 37 THEN <<format[i]>> \o SprintfFrom(format, i + 1, args, a)
    ELSE IF i = Len(format) THEN <<37, 33, 40, 78, 79, 86, 69, 82, 66, 41>>
    ELSE IF format[i + 1] = 37 THEN <<37>> \o SprintfFrom(format, i + 2, args, a)
    ELSE IF a > Len(args)
         THEN MissingVerb(format[i + 1]) \o SprintfFrom(format, i + 2, args, a)
    ELSE Verb(format[i + 1], args[a]) \o SprintfFrom(format, i + 2, args, a + 1)

Sprintf(format, args) == SprintfFrom(format, 1, args, 1)

(***************************************************************************)
(* The terminal: its size, and what it can show.                           *)
(***************************************************************************)
ScreenLines == 3     \* LINES
ScreenCols == 3      \* COLS
TermPairs == 3       \* the pairs a colour terminal of these runs has
FewColors == 4       \* the colours of a terminal with fewer than the table's 8

\* terminal descriptions: no colour, 8 colours, fewer than 8 colours
Terms ==
    {[colors |-> 0, pairs |-> 0],
     [colors |-> 8, pairs |-> TermPairs],
     [colors |-> FewColors, pairs |-> TermPairs]}

Blank == 32
Min(a, b) == IF a < b THEN a ELSE b
Max(a, b) == IF a > b THEN a ELSE b

\* the line-drawing characters a zero argument of wborder and whline stands for
ACS_VLINE == A_ALTCHARSET + 120
ACS_HLINE == A_ALTCHARSET + 113
ACS_ULCORNER == A_ALTCHARSET + 108
ACS_URCORNER == A_ALTCHARSET + 107
ACS_LLCORNER == A_ALTCHARSET + 109
ACS_LRCORNER == A_ALTCHARSET + 106

(***************************************************************************)
(* Windows.  A window is a record: st is "none" (no such window), "live"   *)
(* or "freed" (delwin has released it; a handle to it dangles); parent is  *)
(* the window a sub-window was made from (-1: none) and pary, parx its     *)
(* place in it; begy, begx are its origin on the screen; h, w its size     *)
(* (_maxy + 1, _maxx + 1); chg[y + 1] is line y's changed                  *)
(* range <<first, last>> (NoChange: <<-1, -1>>); cells are the cells of a  *)
(* window that owns its memory.  A sub-window's cells are its root's.      *)
(***************************************************************************)
WinIds == 0 .. MaxWins
Stdscr == 0
Nil == -1
NoChange == <<-1, -1>>

NoWin ==
    [st |-> "none", parent |-> Nil, pary |-> 0, parx |-> 0,
     begy |-> 0, begx |-> 0, h |-> 0, w |-> 0,
     cury |-> 0, curx |-> 0, attrs |-> 0, bkgd |-> Blank, chg |-> <<>>, cells |-> <<>>]

Grid(h, w, c) == [y \in 1 .. h |-> [x \in 1 .. w |-> c]]

RECURSIVE Root(_, _)
Root(ws, w) == IF ws[w].parent = Nil THEN w ELSE Root(ws, ws[w].parent)

RECURSIVE Ancestors(_, _)
Ancestors(ws, w) ==
    IF ws[w].parent = Nil THEN {} ELSE {ws[w].parent} \cup Ancestors(ws, ws[w].parent)

\* the place of a window's cell in the memory of its root
RECURSIVE OffY(_, _)
OffY(ws, w) == IF ws[w].parent = Nil THEN 0 ELSE ws[w].pary + OffY(ws, ws[w].parent)

RECURSIVE OffX(_, _)
OffX(ws, w) == IF ws[w].parent = Nil THEN 0 ELSE ws[w].parx + OffX(ws, ws[w].parent)

RowOf(ws, w, y) == y + OffY(ws, w) + 1
ColOf(ws, w, x) == x + OffX(ws, w) + 1

GetCell(ws, w, y, x) == ws[Root(ws, w)].cells[RowOf(ws, w, y)][ColOf(ws, w, x)]

\* CHANGED_RANGE
Widen(r, x0, x1) ==
    IF r[1] = -1 THEN <<x0, x1>> ELSE <<Min(r[1], x0), Max(r[2], x1)>>

MarkChg(ws, w, y, x0, x1) == [ws EXCEPT ![w].chg[y + 1] = Widen(@, x0, x1)]

PutCell(ws, w, y, x, c) ==
    LET r == Root(ws, w)
        ws1 == [ws EXCEPT ![r].cells[RowOf(ws, w, y)][ColOf(ws, w, x)] = c]
    IN  MarkChg(ws1, w, y, x, x)

\* line y of window w from column x0 to x1 set to c
RECURSIVE FillRange(_, _, _, _, _, _)
FillRange(ws, w, y, x0, x1, c) ==
    IF x0 > x1 THEN ws ELSE FillRange(PutCell(ws, w, y, x0, c), w, y, x0 + 1, x1, c)

CharOf(c) == BitAnd(c, A_CHARTEXT)
AttrOf(c) == BitClear(c, A_CHARTEXT)
SetPair(c, p) == BitOr(BitClear(c, A_COLOR), COLOR_PAIR(p))
\* x & COLOR_MASK(a): x without its colour when a has one
ColorMasked(x, a) == IF BitAnd(a, A_COLOR) # 0 THEN BitClear(x, A_COLOR) ELSE x

\* render_char: the cell a character becomes in a window, from the window's
\* attributes and background
RenderChar(win, ch) ==
    LET bkAttr == AttrOf(win.bkgd)
        winPair == PAIR_NUMBER(win.attrs)
        dflt == IF winPair # 0 THEN winPair ELSE PAIR_NUMBER(win.bkgd)
    IN  IF CharOf(ch) = Blank /\ AttrOf(ch) = 0
        THEN SetPair(BitOr(CharOf(win.bkgd), BitOr(win.attrs, bkAttr)), dflt)
        ELSE LET a == BitOr(win.attrs, ColorMasked(bkAttr, win.attrs))
                 pair == IF PAIR_NUMBER(ch) # 0 THEN PAIR_NUMBER(ch) ELSE dflt
             IN  SetPair(BitOr(ch, ColorMasked(a, AttrOf(ch))), pair)

\* waddch of a printing character: the cell at the cursor, then the cursor
\* one column on, wrapping to the next line; ERR in the last cell of a window
\* that does not scroll
Waddch(ws, w, ch) ==
    LET win == ws[w]
        ws1 == PutCell(ws, w, win.cury, win.curx, RenderChar(win, ch))
    IN  IF win.curx + 1 < win.w
        THEN [ws |-> [ws1 EXCEPT ![w].curx = win.curx + 1], ok |-> TRUE]
        ELSE IF win.cury + 1 < win.h
        THEN [ws |-> [ws1 EXCEPT ![w].cury = win.cury + 1, ![w].curx = 0], ok |-> TRUE]
        ELSE [ws |-> [ws1 EXCEPT ![w].cury = win.h - 1, ![w].curx = win.w - 1],
              ok |-> FALSE]

\* waddstr: character by character up to the first ERR
RECURSIVE Waddstr(_, _, _, _)
Waddstr(ws, w, str, i) ==
    IF i > Len(str) THEN [ws |-> ws, ok |-> TRUE]
    ELSE LET r == Waddch(ws, w, str[i])
         IN  IF r.ok THEN Waddstr(r.ws, w, str, i + 1) ELSE r

\* wmove: ERR outside the window
Wmove(ws, w, y, x) ==
    IF y >= 0 /\ y < ws[w].h /\ x >= 0 /\ x < ws[w].w
    THEN [ws |-> [ws EXCEPT ![w].cury = y, ![w].curx = x], ok |-> TRUE]
    ELSE [ws |-> ws, ok |-> FALSE]

\* lines y0 .. y1 of w set to c, the first from column x0
RECURSIVE FillLines(_, _, _, _, _, _)
FillLines(ws, w, y0, y1, x0, c) ==
    IF y0 > y1 THEN ws
    ELSE FillLines(FillRange(ws, w, y0, x0, ws[w].w - 1, c), w, y0 + 1, y1, 0, c)

\* werase: every cell the background, the cursor home
Werase(ws, w) ==
    LET ws1 == FillLines(ws, w, 0, ws[w].h - 1, 0, ws[w].bkgd)
    IN  [ws1 EXCEPT ![w].cury = 0, ![w].curx = 0]

\* wclrtobot, wclrtoeol: from the cursor; the cursor stays
Wclrtobot(ws, w) == FillLines(ws, w, ws[w].cury, ws[w].h - 1, ws[w].curx, ws[w].bkgd)
Wclrtoeol(ws, w) == FillRange(ws, w, ws[w].cury, ws[w].curx, ws[w].w - 1, ws[w].bkgd)

\* touchwin: every line changed from end to end
Touchwin(ws, w) ==
    [ws EXCEPT ![w].chg = [y \in 1 .. ws[w].h |-> <<0, ws[w].w - 1>>]]

\* every cell (y, x) of w set to f[y, x]
SetCells(ws, w, f) ==
    LET r == Root(ws, w)
        oy == OffY(ws, w)
        ox == OffX(ws, w)
    IN  [ws EXCEPT ![r].cells =
            [row \in DOMAIN @ |->
                [col \in DOMAIN @[row] |->
                    IF /\ row - 1 - oy >= 0 /\ row - 1 - oy < ws[w].h
                       /\ col - 1 - ox >= 0 /\ col - 1 - ox < ws[w].w
                    THEN f[row - 1 - oy, col - 1 - ox]
                    ELSE @[row][col]]]]

\* wborder: a zero argument is the default line-drawing character; the top
\* and bottom lines, then the sides, then the corners; every line changed
Wborder(ws, w, ls, rs, ts, bs, tl, tr, bl, br) ==
    LET win == ws[w]
        R(c, d) == RenderChar(win, IF c = 0 THEN d ELSE c)
        ey == win.h - 1
        ex == win.w - 1
        Cell(y, x, old) ==
            CASE y = ey /\ x = ex -> R(br, ACS_LRCORNER)
              [] y = ey /\ x = 0 -> R(bl, ACS_LLCORNER)
              [] y = 0 /\ x = ex -> R(tr, ACS_URCORNER)
              [] y = 0 /\ x = 0 -> R(tl, ACS_ULCORNER)
              [] x = ex -> R(rs, ACS_VLINE)
              [] x = 0 -> R(ls, ACS_VLINE)
              [] y = ey -> R(bs, ACS_HLINE)
              [] y = 0 -> R(ts, ACS_HLINE)
              [] OTHER -> old
    IN  Touchwin(SetCells(ws, w, [y \in 0 .. ey, x \in 0 .. ex |->
                                    Cell(y, x, GetCell(ws, w, y, x))]), w)

\* whline: n cells from the cursor, cut at the right edge; the cursor stays
Whline(ws, w, ch, n) ==
    LET win == ws[w]
        c == RenderChar(win, IF ch = 0 THEN ACS_HLINE ELSE ch)
    IN  FillRange(ws, w, win.cury, win.curx, Min(win.curx + n - 1, win.w - 1), c)

\* mutant of ToggleAttrOn: the attributes set, not added
ToggleAttrOnAssign(s, at) == at

\* toggle_attr_on, toggle_attr_off: a colour pair replaces the colour
ToggleAttrOn(s, at) ==
    IF PAIR_NUMBER(at) > 0 THEN BitOr(BitClear(s, A_COLOR), at) ELSE BitOr(s, at)

ToggleAttrOff(s, at) ==
    IF PAIR_NUMBER(at) > 0 THEN BitClear(s, BitOr(at, A_COLOR)) ELSE BitClear(s, at)

\* wbkgd: the background set (a zero character is a blank), the window's
\* attributes set to the background's, and the background applied to every
\* cell: a cell that was the old background becomes the new one, any other
\* keeps its character and is rendered anew; the window is touched
Wbkgd(ws, w, ch) ==
    LET old == ws[w].bkgd
        new == IF CharOf(ch) = 0 THEN BitOr(Blank, AttrOf(ch)) ELSE ch
        win1 == [ws[w] EXCEPT !.bkgd = new, !.attrs = AttrOf(new)]
        Cell(y, x, c) ==
            IF c = old THEN new
            ELSE RenderChar(win1, BitAnd(c, BitOr(A_ALTCHARSET, A_CHARTEXT)))
    IN  Touchwin(SetCells([ws EXCEPT ![w] = win1], w,
                          [y \in 0 .. win1.h - 1, x \in 0 .. win1.w - 1 |->
                              Cell(y, x, GetCell(ws, w, y, x))]), w)

\* the windows made from w, directly
Children(ws, w) == {c \in WinIds : ws[c].st = "live" /\ ws[c].parent = w}

\* wsyncup: every changed line of w marked changed in each ancestor
RECURSIVE SyncUpLines(_, _, _)
SyncUpLines(ws, w, y) ==
    IF y >= ws[w].h THEN ws
    ELSE LET r == ws[w].chg[y + 1]
             p == ws[w].parent
             ws1 == IF r[1] = -1 \/ y + ws[w].pary >= ws[p].h THEN ws
                    ELSE MarkChg(ws, p, y + ws[w].pary, r[1] + ws[w].parx,
                                 r[2] + ws[w].parx)
         IN  SyncUpLines(ws1, w, y + 1)

RECURSIVE Wsyncup(_, _)
Wsyncup(ws, w) ==
    IF ws[w].parent = Nil THEN ws
    ELSE Wsyncup(SyncUpLines(ws, w, 0), ws[w].parent)

\* wsyncdown: from the topmost ancestor down, every line of a window whose
\* line in the parent is changed is marked changed over the part they share
RECURSIVE SyncDownLines(_, _, _)
SyncDownLines(ws, w, y) ==
    IF y >= ws[w].h THEN ws
    ELSE LET p == ws[w].parent
             r == IF y + ws[w].pary < ws[p].h THEN ws[p].chg[y + ws[w].pary + 1]
                  ELSE NoChange
             ws1 == IF r[1] = -1 THEN ws
                    ELSE MarkChg(ws, w, y, Max(r[1] - ws[w].parx, 0),
                                 Min(r[2] - ws[w].parx, ws[w].w - 1))
         IN  SyncDownLines(ws1, w, y + 1)

RECURSIVE Wsyncdown(_, _)
Wsyncdown(ws, w) ==
    IF ws[w].parent = Nil THEN ws
    ELSE SyncDownLines(Wsyncdown(ws, ws[w].parent), w, 0)

\* wcursyncup: each ancestor's cursor moved onto the window's
RECURSIVE Wcursyncup(_, _)
Wcursyncup(ws, w) ==
    IF ws[w].parent = Nil THEN ws
    ELSE LET p == ws[w].parent
         IN  Wcursyncup(Wmove(ws, p, ws[w].pary + ws[w].cury,
                              ws[w].parx + ws[w].curx).ws, p)

\* repair_subwindows: after a window is resized, the windows made from it are
\* cut to fit it, and theirs in turn; a cursor is left where it was
RECURSIVE RepairSubwindows(_, _, _)
RepairSubwindows(ws, p, todo) ==
    IF todo = {} THEN ws
    ELSE LET c == CHOOSE m \in todo : \A n \in todo : m <= n
             py == Min(ws[c].pary, ws[p].h - 1)
             px == Min(ws[c].parx, ws[p].w - 1)
             nh == Min(ws[c].h, ws[p].h - py)
             nw == Min(ws[c].w, ws[p].w - px)
             ws1 == [ws EXCEPT ![c].pary = py, ![c].parx = px, ![c].h = nh, ![c].w = nw,
                               ![c].chg = [y \in 1 .. nh |-> ws[c].chg[y]]]
         IN  RepairSubwindows(RepairSubwindows(ws1, c, Children(ws1, c)), p, todo \ {c})

\* wresize: ERR for a size below 1 and for a sub-window that would leave its
\* parent; the cells kept where old and new overlap, the rest the background;
\* the cursor brought inside
Wresize(ws, w, nh, nw) ==
    LET win == ws[w]
        p == win.parent
        Line(y) ==
            IF y > win.h THEN <<0, nw - 1>>
            ELSE IF nw > win.w THEN Widen(win.chg[y], win.w, nw - 1)
            ELSE IF win.chg[y][1] = -1 THEN NoChange
            ELSE <<Min(win.chg[y][1], nw - 1), Min(win.chg[y][2], nw - 1)>>
        geo == [win EXCEPT !.h = nh, !.w = nw,
                           !.cury = Min(win.cury, nh - 1), !.curx = Min(win.curx, nw - 1),
                           !.chg = [y \in 1 .. nh |-> Line(y)]]
        Kept(y, x, old) == IF y >= win.h \/ x >= win.w THEN win.bkgd ELSE old
        ws1 == IF p = Nil
               THEN [ws EXCEPT ![w] =
                        [geo EXCEPT !.cells =
                            [y \in 1 .. nh |-> [x \in 1 .. nw |->
                                IF y <= win.h /\ x <= win.w THEN win.cells[y][x]
                                ELSE win.bkgd]]]]
               ELSE SetCells([ws EXCEPT ![w] = geo], w,
                             [y \in 0 .. nh - 1, x \in 0 .. nw - 1 |->
                                 Kept(y, x, GetCell(ws, w, y, x))])
    IN  IF nh <= 0 \/ nw <= 0 THEN [ws |-> ws, ok |-> FALSE]
        ELSE IF nh = win.h /\ nw = win.w THEN [ws |-> ws, ok |-> TRUE]
        ELSE IF p # Nil /\ (win.pary + nh > ws[p].h \/ win.parx + nw > ws[p].w)
        THEN [ws |-> ws, ok |-> FALSE]
        ELSE [ws |-> RepairSubwindows(ws1, w, Children(ws1, w)), ok |-> TRUE]

\* wnoutrefresh: the changed range of every line of w that is on the screen
\* copied to the virtual screen ns, and the line marked unchanged
Wnoutrefresh(ws, w, ns) ==
    LET win == ws[w]
        limit == Min(win.w - 1, ScreenCols - 1 - win.begx)
        OnScreen(i) == i >= 0 /\ i < win.h /\ win.begy + i < ScreenLines
        Copied(i, x) ==
            /\ OnScreen(i)
            /\ win.chg[i + 1][1] # -1
            /\ x >= win.chg[i + 1][1]
            /\ x <= Min(win.chg[i + 1][2], limit)
    IN  [ns |-> [row \in 1 .. ScreenLines |-> [col \in 1 .. ScreenCols |->
                    IF Copied(row - 1 - win.begy, col - 1 - win.begx)
                    THEN GetCell(ws, w, row - 1 - win.begy, col - 1 - win.begx)
                    ELSE ns[row][col]]],
         ws |-> [ws EXCEPT ![w].chg =
                    [y \in 1 .. win.h |-> IF OnScreen(y - 1) THEN NoChange ELSE @[y]]]]

\* a window newwin or initscr makes: blank, every line changed
MakeWin(h, w, y, x) ==
    [st |-> "live", parent |-> Nil, pary |-> 0, parx |-> 0,
     begy |-> y, begx |-> x, h |-> h, w |-> w,
     cury |-> 0, curx |-> 0, attrs |-> 0, bkgd |-> Blank,
     chg |-> [i \in 1 .. h |-> <<0, w - 1>>], cells |-> Grid(h, w, Blank)]

\* the window id the next allocation gets (Nil: none left in this run)
NextId(ws) ==
    IF \E i \in WinIds : ws[i].st = "none"
    THEN CHOOSE i \in WinIds : ws[i].st = "none" /\ \A j \in WinIds : ws[j].st = "none" => i <= j
    ELSE Nil

\* newwin: NULL for a negative argument; a zero size is the rest of the screen
Newwin(ws, h, w, y, x) ==
    LET nh == IF h = 0 THEN ScreenLines - y ELSE h
        nw == IF w = 0 THEN ScreenCols - x ELSE w
        id == NextId(ws)
    IN  IF y < 0 \/ x < 0 \/ h < 0 \/ w < 0 \/ nh <= 0 \/ nw <= 0 \/ id = Nil
        THEN [ws |-> ws, id |-> Nil]
        ELSE [ws |-> [ws EXCEPT ![id] = MakeWin(nh, nw, y, x)], id |-> id]

\* subwin(orig, h, w, begy, begx): begy, begx are screen coordinates; the
\* new window is derwin at (begy - orig's begy, begx - orig's begx), NULL
\* when that is not inside orig; it shares orig's cells and takes its
\* attributes and background
Subwin(ws, orig, h, w, begy, begx) ==
    LET o == ws[orig]
        py == begy - o.begy
        px == begx - o.begx
        nh == IF h = 0 THEN o.h - py ELSE h
        nw == IF w = 0 THEN o.w - px ELSE w
        id == NextId(ws)
    IN  IF \/ py < 0 \/ px < 0 \/ h < 0 \/ w < 0
           \/ py + h > o.h \/ px + w > o.w \/ nh <= 0 \/ nw <= 0 \/ id = Nil
        THEN [ws |-> ws, id |-> Nil]
        ELSE [ws |-> [ws EXCEPT ![id] =
                        [MakeWin(nh, nw, begy, begx) EXCEPT
                            !.parent = orig, !.pary = py, !.parx = px,
                            !.attrs = o.attrs, !.bkgd = o.bkgd, !.cells = <<>>]],
              id |-> id]

\* delwin: ERR for a pointer that is no window of the library's list and for
\* a window that has sub-windows; else the parent is touched and the window
\* released
Delwin(ws, w) ==
    IF ws[w].st # "live" \/ Children(ws, w) # {}
    THEN [ws |-> ws, ok |-> FALSE]
    ELSE LET ws1 == IF ws[w].parent # Nil THEN Touchwin(ws, ws[w].parent) ELSE ws
         IN  [ws |-> [ws1 EXCEPT ![w].st = "freed"], ok |-> TRUE]

(***************************************************************************)
(* The state.                                                              *)
(***************************************************************************)
VARIABLES
    status,        \* "running", "panicked" (a Go panic), "crashed" (undefined
                   \* behaviour in C took the process down), "exited"
    term,          \* the terminal the program runs on, one of Terms
    initScreen,    \* initscr has set the terminal up
    endwin,        \* endwin has been called and nothing refreshed since
    COLORS,        \* ncurses' COLORS, 0 until start_color
    COLOR_PAIRS,   \* ncurses' COLOR_PAIRS, 0 until start_color
    pairs,         \* the colour-pair table: pair -> <<fg, bg>>
    mousemask,     \* the mask last handed to C.mousemask
    win,           \* the windows, by id
    newscr,        \* the virtual screen wnoutrefresh writes
    phys,          \* the image on the terminal
    input,         \* typed characters not read yet
    onNames,       \* per window, the valid names Attron has turned on and
                   \* Attroff has not turned off since (a record of the calls)
    last,          \* the last call: [op, w, a (arguments), err, res]
    budget         \* calls the run may still make

gvars == <<term, initScreen, endwin, COLORS, COLOR_PAIRS, pairs, mousemask>>
vars == <<status, term, initScreen, endwin, COLORS, COLOR_PAIRS, pairs, mousemask,
          win, newscr, phys, input, onNames, last, budget>>

\* the windows the program holds a pointer to, dangling ones included
Handles == {w \in WinIds : win[w].st # "none"}

\* the record of a call that returned
Done(op, w, a, err, res) ==
    /\ budget > 0
    /\ last' = [op |-> op, w |-> w, a |-> a, err |-> err, res |-> res]
    /\ budget' = budget - 1

\* a step that is a call
CallStep == budget' = budget - 1

\* what a library call on window w can do: on a window that delwin has
\* released the pointer dangles and the call is undefined: it acts on the
\* stale memory, or does nothing, or takes the process down
Outcomes(w) == IF win[w].st = "freed" THEN {"act", "nothing", "crash"} ELSE {"act"}

\* a call on window w that leaves the windows as ws2, and the names turned
\* on as on2, when it acts
WinCallOn(op, w, a, err, res, ws2, on2) ==
    /\ status = "running"
    /\ w \in Handles
    /\ \E o \in Outcomes(w) :
          IF o = "crash"
          THEN /\ status' = "crashed"
               /\ win' = win
               /\ onNames' = onNames
               /\ Done(op, w, a, "crashed", Nil)
          ELSE /\ status' = status
               /\ win' = IF o = "act" THEN ws2 ELSE win
               /\ onNames' = IF o = "act" THEN on2 ELSE onNames
               /\ Done(op, w, a, err, res)
    /\ UNCHANGED <<gvars, newscr, phys, input>>

WinCall(op, w, a, err, res, ws2) == WinCallOn(op, w, a, err, res, ws2, onNames)

(***************************************************************************)
(* The package's functions.                                                *)
(***************************************************************************)

\* initscr returns stdscr; it sets the terminal up only the first time, and
\* ends the program when the terminal cannot be opened
Init(opens) ==
    /\ status = "running"
    /\ IF initScreen
       THEN /\ Done("Init", Stdscr, [live |-> ~endwin], "nil", Stdscr)
            /\ UNCHANGED <<status, gvars, win, newscr, phys, input, onNames>>
       ELSE IF ~opens
       THEN /\ status' = "exited"
            /\ Done("Init", Nil, [live |-> FALSE], "exited", Nil)
            /\ UNCHANGED <<gvars, win, newscr, phys, input, onNames>>
       ELSE /\ initScreen' = TRUE
            /\ endwin' = FALSE
            /\ win' = [win EXCEPT ![Stdscr] = MakeWin(ScreenLines, ScreenCols, 0, 0)]
            /\ newscr' = Grid(ScreenLines, ScreenCols, Blank)
            /\ Done("Init", Stdscr, [live |-> FALSE], "nil", Stdscr)
            /\ UNCHANGED <<status, term, COLORS, COLOR_PAIRS, pairs, mousemask,
                           phys, input, onNames>>

End ==
    /\ status = "running"
    /\ endwin' = initScreen
    /\ Done("End", Nil, <<>>, "void", Nil)
    /\ UNCHANGED <<status, term, initScreen, COLORS, COLOR_PAIRS, pairs, mousemask,
                   win, newscr, phys, input, onNames>>

\* doupdate: the virtual screen written to the terminal
Update ==
    /\ status = "running"
    /\ IF initScreen
       THEN /\ phys' = newscr
            /\ endwin' = FALSE
            /\ Done("Update", Nil, <<>>, "nil", Nil)
       ELSE /\ Done("Update", Nil, <<>>, "Failed to update", Nil)
            /\ UNCHANGED <<phys, endwin>>
    /\ UNCHANGED <<status, term, initScreen, COLORS, COLOR_PAIRS, pairs, mousemask,
                   win, newscr, input, onNames>>

\* start_color sets COLORS and COLOR_PAIRS from the terminal and pair 0, the
\* default white on black
StartColor ==
    /\ status = "running"
    /\ IF ~initScreen \/ term.colors = 0
       THEN /\ Done("StartColor", Nil, <<>>, "Terminal does not support colors", Nil)
            /\ UNCHANGED <<COLORS, COLOR_PAIRS, pairs>>
       ELSE /\ COLORS' = term.colors
            /\ COLOR_PAIRS' = term.pairs
            /\ pairs' = IF COLOR_PAIRS = 0 THEN [pairs EXCEPT ![0] = <<7, 0>>] ELSE pairs
            /\ Done("StartColor", Nil, <<>>, "nil", Nil)
    /\ UNCHANGED <<status, term, initScreen, endwin, mousemask,
                   win, newscr, phys, input, onNames>>

\* the pair ids handed to InitPair in these runs (a byte in the source)
PairIds == 0 .. TermPairs + 1
NoPair == <<-1, -1>>

\* mutant of InitPairErr: pair > COLOR_PAIRS for pair > COLOR_PAIRS - 1
InitPairErrOffByOne(pair, fg, bg) ==
    IF pair = 0 \/ pair > COLOR_PAIRS THEN "Invalid color pair selected"
    ELSE IF fg \notin ColorNames THEN "Invalid foreground color"
    ELSE IF bg \notin ColorNames THEN "Invalid foreground color"
    ELSE IF colorList(fg) >= COLORS \/ colorList(bg) >= COLORS
    THEN "Failed to init color pair"
    ELSE "nil"

\* the checks of InitPair, then init_pair's: ERR for a colour the terminal
\* does not have
InitPairErr(pair, fg, bg) ==
    IF pair = 0 \/ pair > COLOR_PAIRS - 1 THEN "Invalid color pair selected"
    ELSE IF fg \notin ColorNames THEN "Invalid foreground color"
    ELSE IF bg \notin ColorNames THEN "Invalid foreground color"
    ELSE IF colorList(fg) >= COLORS \/ colorList(bg) >= COLORS
    THEN "Failed to init color pair"
    ELSE "nil"

InitPair(pair, fg, bg) ==
    /\ status = "running"
    /\ LET err == InitPairErr(pair, fg, bg)
       IN  /\ pairs' = IF err = "nil"
                       THEN (pair :> <<colorList(fg), colorList(bg)>>) @@ pairs
                       ELSE pairs
           /\ Done("InitPair", Nil, <<pair, fg, bg>>, err, Nil)
    /\ UNCHANGED <<status, term, initScreen, endwin, COLORS, COLOR_PAIRS, mousemask,
                   win, newscr, phys, input, onNames>>

\* mutant of MouseUnion: = for |=, the last name alone
MouseUnionAssign(masks, i) ==
    IF Len(masks) = 0 THEN 0 ELSE mouseEvents(masks[Len(masks)])

\* the loop of MouseMask: mousemask |= mouseEvents[mask]
RECURSIVE MouseUnion(_, _)
MouseUnion(masks, i) ==
    IF i > Len(masks) THEN 0
    ELSE BitOr(mouseEvents(masks[i]), MouseUnion(masks, i + 1))

MouseMask(masks) ==
    /\ status = "running"
    /\ mousemask' = MouseUnion(masks, 1)
    /\ Done("MouseMask", Nil, masks, "void", Nil)
    /\ UNCHANGED <<status, term, initScreen, endwin, COLORS, COLOR_PAIRS, pairs,
                   win, newscr, phys, input, onNames>>

NewWindow(h, w, y, x) ==
    /\ status = "running"
    /\ LET r == IF initScreen THEN Newwin(win, h, w, y, x) ELSE [ws |-> win, id |-> Nil]
       IN  /\ win' = r.ws
           /\ Done("NewWindow", r.id, <<h, w, y, x>>,
                   IF r.id = Nil THEN "Failed to create a new window" ELSE "nil", r.id)
    /\ UNCHANGED <<status, gvars, newscr, phys, input, onNames>>

\* the loop of AddChar and Background: cattr |= attrList[attr]
RECURSIVE AttrUnion(_, _)
AttrUnion(attributes, i) ==
    IF i > Len(attributes) THEN 0
    ELSE BitOr(attrList(attributes[i]), AttrUnion(attributes, i + 1))

\* mutant of AddChar: waddch, and the window refreshed at once
AddCharRefreshing(w, ch, attributes) ==
    /\ status = "running"
    /\ w \in Handles
    /\ LET r == Wnoutrefresh(Waddch(win, w, BitOr(ch, AttrUnion(attributes, 1))).ws,
                             w, newscr)
       IN  /\ win' = r.ws
           /\ newscr' = r.ns
           /\ phys' = r.ns
    /\ Done("AddChar", w,
            [ch |-> ch, names |-> attributes, at |-> <<win[w].cury, win[w].curx>>],
            "void", Nil)
    /\ UNCHANGED <<status, gvars, input, onNames>>

\* a records, with the arguments, where the window's cursor was at the call
AddChar(w, ch, attributes) ==
    WinCall("AddChar", w,
            [ch |-> ch, names |-> attributes, at |-> <<win[w].cury, win[w].curx>>],
            "void", Nil,
            Waddch(win, w, BitOr(ch, AttrUnion(attributes, 1))).ws)

\* wattron and wattroff return OK for every window that is not NULL, so the
\* error of an unknown name is the one returned, after the library was
\* called with attribute 0
AttrErr(attrstr) == IF attrstr \in AttrNames THEN "nil" ELSE "Invalid attribute"

Attron(w, attrstr) ==
    WinCallOn("Attron", w, [names |-> <<attrstr>>], AttrErr(attrstr), Nil,
              [win EXCEPT ![w].attrs = ToggleAttrOn(@, attrList(attrstr))],
              IF attrstr \in AttrNames
              THEN [onNames EXCEPT ![w] = @ \cup {attrstr}] ELSE onNames)

Attroff(w, attrstr) ==
    WinCallOn("Attroff", w, [names |-> <<attrstr>>], AttrErr(attrstr), Nil,
              [win EXCEPT ![w].attrs = ToggleAttrOff(@, attrList(attrstr))],
              IF attrstr \in AttrNames
              THEN [onNames EXCEPT ![w] = @ \ {attrstr}] ELSE onNames)

\* the loop of Background over arguments [t |-> "byte" | "int" | "string", v]
RECURSIVE BackgroundUnion(_, _)
BackgroundUnion(args, i) ==
    IF i > Len(args) THEN 0
    ELSE BitOr(CASE args[i].t = "int" -> COLOR_PAIR(args[i].v)
                 [] args[i].t = "string" -> attrList(args[i].v)
                 [] OTHER -> 0,
               BackgroundUnion(args, i + 1))

\* the names among the arguments of Background
RECURSIVE StringsOf(_, _)
StringsOf(args, i) ==
    IF i > Len(args) THEN <<>>
    ELSE (IF args[i].t = "string" THEN <<args[i].v>> ELSE <<>>) \o StringsOf(args, i + 1)

Background(w, args) ==
    WinCall("Background", w, [args |-> args, names |-> StringsOf(args, 1)], "void", Nil,
            Wbkgd(win, w, BackgroundUnion(args, 1)))

ErrOf(ok, msg) == IF ok THEN "nil" ELSE msg

Border(w, ls, rs, ts, bs, tl, tr, bl, br) ==
    WinCall("Border", w, <<ls, rs, ts, bs, tl, tr, bl, br>>, "nil", Nil,
            Wborder(win, w, ls, rs, ts, bs, tl, tr, bl, br))

Box(w, vch, hch) ==
    WinCall("Box", w, <<vch, hch>>, "nil", Nil,
            Wborder(win, w, vch, vch, hch, hch, 0, 0, 0, 0))

\* wclear: werase, and the screen repainted in full at the next refresh
Clear(w) == WinCall("Clear", w, <<>>, "nil", Nil, Werase(win, w))

ClearToBottom(w) == WinCall("ClearToBottom", w, <<>>, "nil", Nil, Wclrtobot(win, w))

ClearToEOL(w) == WinCall("ClearToEOL", w, <<>>, "nil", Nil, Wclrtoeol(win, w))

Erase(w) == WinCall("Erase", w, <<>>, "void", Nil, Werase(win, w))

Delete(w) ==
    /\ status = "running"
    /\ w \in Handles
    /\ LET r == Delwin(win, w)
       IN  /\ win' = r.ws
           /\ Done("Delete", w, <<>>, ErrOf(r.ok, "Failed to delete window"), Nil)
    /\ UNCHANGED <<status, gvars, newscr, phys, input, onNames>>

\* the id a call of subwin on w returns when it acts
SubwinCall(op, w, height, width, y, x) ==
    LET r == Subwin(win, w, height, width, y, x)
    IN  WinCall(op, w, <<height, width, y, x>>, "void", r.id, r.ws)

DerivedWindow(w, height, width, y, x) ==
    SubwinCall("DerivedWindow", w, height, width, y, x)

SubWindow(w, height, width, y, x) ==
    SubwinCall("SubWindow", w, height, width, y, x)

\* mvwhline: wmove, and whline when the move was inside the window
HLine(w, y, x, ch, width) ==
    LET m == Wmove(win, w, y, x)
    IN  WinCall("HLine", w, <<y, x, ch, width>>, "void", Nil,
                IF m.ok THEN Whline(m.ws, w, ch, width) ELSE win)

Move(w, y, x) == WinCall("Move", w, <<y, x>>, "void", Nil, Wmove(win, w, y, x).ws)

Resize(w, height, width) ==
    WinCall("Resize", w, <<height, width>>, "void", Nil, Wresize(win, w, height, width).ws)

SYNC_NONE == 0
SYNC_CURSOR == 1
SYNC_DOWN == 2
SYNC_UP == 3

Sync(w, sync) ==
    WinCall("Sync", w, <<sync>>, "void", Nil,
            CASE sync = SYNC_DOWN -> Wsyncdown(win, w)
              [] sync = SYNC_CURSOR -> Wcursyncup(win, w)
              [] sync = SYNC_UP -> Wsyncup(win, w)
              [] OTHER -> win)

Touch(w) == WinCall("Touch", w, <<>>, "void", Nil, Touchwin(win, w))

\* the arguments Print takes for coordinates: count, y, x
PrintCount(args) ==
    LET c1 == IF Len(args) > 1 /\ args[1].t = "int" THEN 1 ELSE 0
        c2 == IF Len(args) > 2 /\ args[2].t = "int" THEN 1 ELSE 0
    IN  [count |-> c1 + c2,
         y |-> IF c1 = 1 THEN args[1].v ELSE 0,
         x |-> IF c2 = 1 THEN args[2].v ELSE 0]

\* args[count].(string) panics: no such argument, or not a string
PrintPanics(args) ==
    LET count == PrintCount(args).count
    IN  count + 1 > Len(args) \/ args[count + 1].t # "string"

WindowPrint(w, args) ==
    IF PrintPanics(args)
    THEN /\ status = "running"
         /\ w \in Handles
         /\ status' = "panicked"
         /\ Done("Print", w, args, "panic", Nil)
         /\ UNCHANGED <<gvars, win, newscr, phys, input, onNames>>
    ELSE LET c == PrintCount(args)
             text == Sprintf(args[c.count + 1].v, SubSeq(args, c.count + 2, Len(args)))
             m == Wmove(win, w, c.y, c.x)
             ws2 == IF c.count > 0
                    THEN (IF m.ok THEN Waddstr(m.ws, w, text, 1).ws ELSE win)
                    ELSE Waddstr(win, w, text, 1).ws
         IN  WinCall("Print", w, args, "void",
                     [move |-> IF c.count > 0 THEN <<c.y, c.x>> ELSE <<>>, text |-> text],
                     ws2)

\* wrefresh: wnoutrefresh, then doupdate
Refresh(w) ==
    /\ status = "running"
    /\ w \in Handles
    /\ \E o \in Outcomes(w) :
          IF o = "crash"
          THEN /\ status' = "crashed"
               /\ Done("Refresh", w, <<>>, "crashed", Nil)
               /\ UNCHANGED <<win, newscr, phys, endwin>>
          ELSE IF o = "nothing"
          THEN /\ Done("Refresh", w, <<>>, "void", Nil)
               /\ UNCHANGED <<status, win, newscr, phys, endwin>>
          ELSE LET r == Wnoutrefresh(win, w, newscr)
               IN  /\ win' = r.ws
                   /\ newscr' = r.ns
                   /\ phys' = r.ns
                   /\ endwin' = FALSE
                   /\ Done("Refresh", w, <<>>, "void", Nil)
                   /\ UNCHANGED status
    /\ UNCHANGED <<term, initScreen, COLORS, COLOR_PAIRS, pairs, mousemask, input, onNames>>

\* a key is typed (the environment)
TypeKey(c) ==
    /\ status = "running"
    /\ Len(input) <= MaxQueue
    /\ input' = Append(input, c)
    /\ UNCHANGED <<status, gvars, win, newscr, phys, onNames, last, budget>>

Newline == 10

\* the place of the first newline in the queue (0: none)
RECURSIVE LineEnd(_, _)
LineEnd(q, i) ==
    IF i > Len(q) THEN 0 ELSE IF q[i] = Newline THEN i ELSE LineEnd(q, i + 1)

\* wgetch's handling of the screen with echo on, as initscr leaves it: the
\* window refreshed before the read, the characters read written to it, the
\* cursor put at (cury, curx) when cury is not Nil, and the window refreshed
Echoed(ws, w, ns, str, cury, curx) ==
    LET r0 == Wnoutrefresh(ws, w, ns)
        ws1 == Waddstr(r0.ws, w, str, 1).ws
        ws2 == IF cury = Nil THEN ws1
               ELSE [ws1 EXCEPT ![w].cury = Min(ws1[w].cury + cury, ws1[w].h - 1),
                                ![w].curx = curx]
    IN  Wnoutrefresh(ws2, w, r0.ns)

\* wgetch: waits for a character; res is the character
GetChar(w) ==
    /\ status = "running"
    /\ w \in Handles
    /\ Len(input) > 0
    /\ \E o \in Outcomes(w) :
          IF o = "crash"
          THEN /\ status' = "crashed"
               /\ Done("GetChar", w, <<>>, "crashed", Nil)
               /\ UNCHANGED <<win, newscr, phys, endwin, input>>
          ELSE IF o = "nothing"
          THEN /\ Done("GetChar", w, <<>>,
                       "Failed to retrieve character from input stream", Nil)
               /\ UNCHANGED <<status, win, newscr, phys, endwin, input>>
          ELSE LET r == Echoed(win, w, newscr, <<Head(input)>>, Nil, Nil)
               IN  /\ win' = r.ws
                   /\ newscr' = r.ns
                   /\ phys' = r.ns
                   /\ endwin' = FALSE
                   /\ input' = Tail(input)
                   /\ Done("GetChar", w, <<>>, "nil", Head(input))
                   /\ UNCHANGED status
    /\ UNCHANGED <<term, initScreen, COLORS, COLOR_PAIRS, pairs, mousemask, onNames>>

\* GetString(n): a slice of n bytes, and wgetnstr(w, &cstr[0], n), which
\* waits for the end of the line, stores and echoes the first n characters
\* typed, drops the others with a beep, puts the cursor at the start of the
\* next line and writes the terminating 0 after the last character stored:
\* after n characters that is cstr[n], one past the slice, and the call
\* returns as if nothing happened or the process dies ("overrun").  &cstr[0]
\* panics for n = 0.  res records the string returned, the length of the
\* slice, the bytes written and the characters taken from the queue before
\* the end of the line.
GetString(w, n) ==
    /\ status = "running"
    /\ w \in Handles
    /\ IF n = 0
       THEN /\ status' = "panicked"
            /\ Done("GetString", w, <<n>>, "panic", Nil)
            /\ UNCHANGED <<win, newscr, phys, endwin, input>>
       ELSE /\ LineEnd(input, 1) > 0
            /\ \E o \in Outcomes(w) \cup
                        (IF LineEnd(input, 1) - 1 >= n THEN {"overrun"} ELSE {}) :
                 LET typed == LineEnd(input, 1) - 1
                     stored == Min(typed, n)
                     r == Echoed(win, w, newscr, SubSeq(input, 1, stored), 1, 0)
                     res == [str |-> SubSeq(input, 1, stored), buflen |-> n,
                             wrote |-> stored + 1, typed |-> typed]
                 IN  IF o = "crash"
                     THEN /\ status' = "crashed"
                          /\ Done("GetString", w, <<n>>, "crashed", Nil)
                          /\ UNCHANGED <<win, newscr, phys, endwin, input>>
                     ELSE IF o = "nothing"
                     THEN /\ Done("GetString", w, <<n>>,
                                  "Failed to retrieve string from input stream", Nil)
                          /\ UNCHANGED <<status, win, newscr, phys, endwin, input>>
                     ELSE /\ win' = r.ws
                          /\ newscr' = r.ns
                          /\ phys' = r.ns
                          /\ endwin' = FALSE
                          /\ input' = SubSeq(input, typed + 2, Len(input))
                          /\ IF o = "overrun"
                             THEN /\ status' = "crashed"
                                  /\ Done("GetString", w, <<n>>, "crashed", res)
                             ELSE /\ status' = status
                                  /\ Done("GetString", w, <<n>>, "nil", res)
    /\ UNCHANGED <<term, initScreen, COLORS, COLOR_PAIRS, pairs, mousemask, onNames>>

(***************************************************************************)
(* Initial states.                                                         *)
(***************************************************************************)
NoCall == [op |-> "none", w |-> Nil, a |-> <<>>, err |-> "nil", res |-> Nil]

\* the program before any call, on terminal t, with n calls to make
Fresh(t, n) ==
    /\ status = "running"
    /\ term = t
    /\ initScreen = FALSE
    /\ endwin = FALSE
    /\ COLORS = 0
    /\ COLOR_PAIRS = 0
    /\ pairs = [p \in PairIds |-> NoPair]
    /\ mousemask = 0
    /\ win = [w \in WinIds |-> NoWin]
    /\ newscr = Grid(ScreenLines, ScreenCols, Blank)
    /\ phys = Grid(ScreenLines, ScreenCols, Blank)
    /\ input = <<>>
    /\ onNames = [w \in WinIds |-> {}]
    /\ last = NoCall
    /\ budget = n

\* the program after Init() on a terminal of 8 colours, with n calls to make
AfterInit(n) ==
    /\ status = "running"
    /\ term = [colors |-> 8, pairs |-> TermPairs]
    /\ initScreen = TRUE
    /\ endwin = FALSE
    /\ COLORS = 0
    /\ COLOR_PAIRS = 0
    /\ pairs = [p \in PairIds |-> NoPair]
    /\ mousemask = 0
    /\ win = [w \in WinIds |->
                IF w = Stdscr THEN MakeWin(ScreenLines, ScreenCols, 0, 0) ELSE NoWin]
    /\ newscr = Grid(ScreenLines, ScreenCols, Blank)
    /\ phys = Grid(ScreenLines, ScreenCols, Blank)
    /\ input = <<>>
    /\ onNames = [w \in WinIds |-> {}]
    /\ last = NoCall
    /\ budget = n

(***************************************************************************)
(* Arguments of the calls in these runs.                                   *)
(***************************************************************************)
Chars == {65, Blank}
AttrArgs == {"bold", "underline", "normal", "chartext", "blinking"}
ColorArgs == {"red", "white", "puce"}
MouseArgs == {"button1-clicked", "shift", "position", "nonexistent-event"}

\* the lists of at most n elements of S
RECURSIVE ListsUpTo(_, _)
ListsUpTo(S, n) ==
    IF n = 0 THEN {<<>>}
    ELSE LET shorter == ListsUpTo(S, n - 1)
         IN  shorter \cup {Append(l, e) : l \in shorter, e \in S}

\* the attribute lists handed to AddChar
AddCharNames == {<<>>, <<"bold">>, <<"underline", "bold">>, <<"blinking">>}

(***************************************************************************)
(* The package's global functions: the session, colours, the mouse.        *)
(***************************************************************************)
NextGlobal ==
    \/ \E opens \in BOOLEAN : Init(opens)
    \/ End
    \/ Update
    \/ StartColor
    \/ \E pair \in PairIds, fg \in ColorArgs, bg \in ColorArgs : InitPair(pair, fg, bg)
    \/ \E masks \in ListsUpTo(MouseArgs, MaxNames) : MouseMask(masks)

StartGlobal == \E t \in Terms : Fresh(t, MaxOps)

SpecGlobal == StartGlobal /\ [][NextGlobal]_vars

\* what C9 is about: the bits of the mouse table, 4 buttons of 6 and 4 more
MouseBits == 6 * 4 + 4

\* C4: Init fails with an initialization error whenever a session is already
\* live (Init was called and End has not been called since).
C4_InitFailsWhenLive ==
    (last.op = "Init" /\ last.a.live) => last.err # "nil"

\* a step that is a call of InitPair
InitPairStep == CallStep /\ last'.op = "InitPair"

\* C6 as stated: InitPair returns an error exactly when pair = 0, or
\* pair >= COLOR_PAIRS, or fg or bg is no name of the colour table; then no
\* pair changes, and otherwise the pair maps to (fg, bg).
C6_ErrorExactlyOnBadArguments ==
    [][InitPairStep =>
        LET pair == last'.a[1]
            fg == last'.a[2]
            bg == last'.a[3]
            bad == pair = 0 \/ pair >= COLOR_PAIRS
                   \/ fg \notin ColorNames \/ bg \notin ColorNames
        IN  /\ (last'.err # "nil") <=> bad
            /\ bad => pairs' = pairs
            /\ ~bad => pairs' = [pairs EXCEPT ![pair] = <<colorList(fg), colorList(bg)>>]
      ]_vars

\* C6 amended: InitPair returns an error exactly when pair = 0, or
\* pair >= COLOR_PAIRS, or fg or bg is no name of the colour table, or the
\* terminal has no colour of fg's or bg's index (init_pair refuses it); then
\* no pair changes, and otherwise the pair maps to (fg, bg).
C6_ErrorOnBadArgumentsOrRefusal ==
    [][InitPairStep =>
        LET pair == last'.a[1]
            fg == last'.a[2]
            bg == last'.a[3]
            bad == pair = 0 \/ pair >= COLOR_PAIRS
                   \/ fg \notin ColorNames \/ bg \notin ColorNames
                   \/ colorList(fg) >= COLORS \/ colorList(bg) >= COLORS
        IN  /\ (last'.err # "nil") <=> bad
            /\ bad => pairs' = pairs
            /\ ~bad => pairs' = [pairs EXCEPT ![pair] = <<colorList(fg), colorList(bg)>>]
      ]_vars

\* a pair defined on a terminal with fewer colours than the table
C6_Witness ==
    /\ last.op = "InitPair"
    /\ last.err = "nil"
    /\ COLORS = FewColors
    /\ pairs[last.a[1]] = <<colorList(last.a[2]), colorList(last.a[3])>>

\* C9: the mask MouseMask hands to the driver has exactly the bits of the
\* table entries of the names that are in the table; a name that is not in
\* it adds no bit and raises no error.
C9_MouseMaskIsUnionOfKnown ==
    last.op = "MouseMask" =>
        /\ last.err = "void"
        /\ mousemask < Pow2(MouseBits)
        /\ \A i \in 0 .. MouseBits - 1 :
              Bit(mousemask, i) <=>
                  \E k \in 1 .. Len(last.a) :
                      last.a[k] \in MouseNames /\ Bit(mouseEvents(last.a[k]), i)

\* a known and an unknown name together
C9_Witness ==
    /\ last.op = "MouseMask"
    /\ last.a = <<"nonexistent-event", "shift">>
    /\ mousemask = NCURSES_MOUSE_MASK(5, 2)

(***************************************************************************)
(* The life of windows: made, written, shown, deleted.                     *)
(***************************************************************************)
\* the rectangles asked for in these runs: <<height, width, y, x>>
Rects == {<<2, 2, 1, 1>>, <<1, 1, 1, 1>>, <<1, 2, 0, 0>>}

NextLife ==
    \/ \E r \in Rects : NewWindow(r[1], r[2], r[3], r[4])
    \/ \E p \in Handles, r \in Rects : SubWindow(p, r[1], r[2], r[3], r[4])
    \/ \E p \in Handles, r \in Rects : DerivedWindow(p, r[1], r[2], r[3], r[4])
    \/ \E w \in Handles : Delete(w)
    \/ \E w \in Handles : AddChar(w, 65, <<>>)
    \/ \E w \in Handles : Refresh(w)

StartLife == AfterInit(MaxLifeOps)

SpecLife == StartLife /\ [][NextLife]_vars

\* the calls that take a window
WindowOps ==
    {"AddChar", "Attron", "Attroff", "Background", "Border", "Box", "Clear",
     "ClearToBottom", "ClearToEOL", "Delete", "DerivedWindow", "Erase", "GetString",
     "HLine", "Move", "Print", "Refresh", "Resize", "SubWindow", "Sync", "Touch"}

\* C3: after Delete has destroyed a window, every later operation on it
\* fails with a stale-window error and changes no state, and the window
\* never becomes active again.
C3_StaleWindowFails ==
    [][/\ \A w \in WinIds : win[w].st = "freed" => win'[w].st = "freed"
       /\ (/\ CallStep
           /\ last'.op \in WindowOps
           /\ win[last'.w].st = "freed")
          => (/\ last'.err = "StaleWindowError"
              /\ win' = win /\ newscr' = newscr /\ phys' = phys)
      ]_vars

\* C8: a window DerivedWindow(height, width, y, x) makes has its origin at
\* the parent's origin plus (y, x) and lies inside the parent.
C8_DerivedIsRelativeToParent ==
    (/\ last.op = "DerivedWindow"
     /\ last.err = "void"
     /\ last.res # Nil)
    => LET p == win[last.w]
           d == win[last.res]
       IN  /\ d.begy = p.begy + last.a[3]
           /\ d.begx = p.begx + last.a[4]
           /\ d.begy + d.h <= p.begy + p.h
           /\ d.begx + d.w <= p.begx + p.w

(***************************************************************************)
(* Attributes: the calls that take attribute names, on stdscr.             *)
(***************************************************************************)
BgArgs ==
    {[t |-> "string", v |-> "bold"], [t |-> "string", v |-> "blinking"],
     [t |-> "int", v |-> 1], [t |-> "byte", v |-> 65]}

NextAttr ==
    \/ \E ch \in Chars, names \in AddCharNames : AddChar(Stdscr, ch, names)
    \/ \E name \in AttrArgs : Attron(Stdscr, name)
    \/ \E name \in AttrArgs : Attroff(Stdscr, name)
    \/ \E args \in ListsUpTo(BgArgs, MaxNames) : Background(Stdscr, args)

StartAttr == AfterInit(MaxAttrOps)

SpecAttr == StartAttr /\ [][NextAttr]_vars

\* a list holds a name that is not in the attribute table
HasUnknown(names) == \E k \in 1 .. Len(names) : names[k] \notin AttrNames

\* C5: AddChar, Attron, Attroff and Background reject an attribute name that
\* is not in the table with an error, and the rejected call leaves the
\* window's cells and attributes as they were.
C5_UnknownAttributeRejected ==
    [][(/\ CallStep
        /\ last'.op \in {"AddChar", "Attron", "Attroff", "Background"}
        /\ HasUnknown(last'.a.names))
       => (last'.err \notin {"nil", "void"} /\ win' = win)
      ]_vars

NextOnOff ==
    \/ \E ch \in Chars, names \in AddCharNames : AddChar(Stdscr, ch, names)
    \/ \E name \in AttrArgs : Attron(Stdscr, name)
    \/ \E name \in AttrArgs : Attroff(Stdscr, name)

SpecOnOff == StartAttr /\ [][NextOnOff]_vars

\* the bits of a cell: 8 of the character, 8 of the pair, 9 attributes
CellBits == 8 + 8 + 9

\* C10: after Attron and Attroff calls with valid names the window's
\* attributes are exactly the bits of the names turned on and not turned
\* off since (so turning a name on twice is turning it on once), and the
\* cell AddChar then writes has exactly the bits of the character, of that
\* union and of the attributes passed.
C10_AttributesAreUnionOfNamesOn ==
    \A w \in WinIds : win[w].st = "live" =>
        /\ win[w].attrs < Pow2(CellBits)
        /\ \A i \in 0 .. CellBits - 1 :
              Bit(win[w].attrs, i) <=> \E n \in onNames[w] : Bit(attrList(n), i)
        /\ (last.op = "AddChar" /\ last.w = w) =>
              LET cell == GetCell(win, w, last.a.at[1], last.a.at[2])
              IN  /\ cell < Pow2(CellBits)
                  /\ \A i \in 0 .. CellBits - 1 :
                        Bit(cell, i) <=>
                            \/ Bit(last.a.ch, i)
                            \/ \E n \in onNames[w] : Bit(attrList(n), i)
                            \/ \E k \in 1 .. Len(last.a.names) :
                                  Bit(attrList(last.a.names[k]), i)

\* a character written with two names on
C10_Witness ==
    /\ last.op = "AddChar"
    /\ last.a.ch = 65
    /\ onNames[Stdscr] = {"bold", "underline"}
    /\ GetCell(win, Stdscr, 0, 0) = 65 + A_BOLD + A_UNDERLINE


(***************************************************************************)
(* Drawing and showing: what reaches the terminal, and when.               *)
(***************************************************************************)
NextDraw ==
    \/ SubWindow(Stdscr, 2, 2, 1, 1)
    \/ \E w \in Handles : AddChar(w, 65, <<>>)
    \/ \E w \in Handles : WindowPrint(w, <<IntArg(1), StrArg(<<66>>)>>)
    \/ \E w \in Handles : Border(w, 0, 0, 0, 0, 0, 0, 0, 0)
    \/ \E w \in Handles : Box(w, 124, 45)
    \/ \E w \in Handles : HLine(w, 0, 1, 45, 2)
    \/ \E w \in Handles : Clear(w)
    \/ \E w \in Handles : ClearToBottom(w)
    \/ \E w \in Handles : ClearToEOL(w)
    \/ \E w \in Handles : Erase(w)
    \/ \E w \in Handles : Move(w, 1, 1)
    \/ \E w \in Handles : Resize(w, 2, 1)
    \/ \E w \in Handles : Touch(w)
    \/ \E w \in Handles, sync \in {SYNC_CURSOR, SYNC_DOWN, SYNC_UP} : Sync(w, sync)
    \/ \E w \in Handles : Refresh(w)
    \/ Update
    \/ (input = <<>> /\ TypeKey(65))
    \/ \E w \in Handles : GetChar(w)

StartDraw == AfterInit(MaxDrawOps)

SpecDraw == StartDraw /\ [][NextDraw]_vars

DrawingOps ==
    {"AddChar", "Print", "Border", "Box", "HLine", "Clear", "ClearToBottom",
     "ClearToEOL", "Erase", "Move", "Resize", "Touch", "Sync"}

\* C7 as stated: the image on the terminal changes only through a Refresh or
\* an Update call; the drawing operations leave it as it is.
C7_ImageChangesOnlyOnRefresh ==
    [][/\ (CallStep /\ last'.op \in DrawingOps) => phys' = phys
       /\ phys' # phys => (CallStep /\ last'.op \in {"Refresh", "Update"})
      ]_vars

\* C7 amended: the image on the terminal changes only through a Refresh or
\* an Update call or a read of input (GetChar, GetString), which refreshes
\* the window and echoes what is typed; the drawing operations leave it as
\* it is.
C7_ImageChangesOnlyOnRefreshOrRead ==
    [][/\ (CallStep /\ last'.op \in DrawingOps) => phys' = phys
       /\ phys' # phys =>
             (CallStep /\ last'.op \in {"Refresh", "Update", "GetChar", "GetString"})
      ]_vars

\* a window erased after it was shown: the terminal still shows the character
C7_Witness ==
    /\ last.op = "Erase"
    /\ last.w = Stdscr
    /\ GetCell(win, Stdscr, 0, 0) = Blank
    /\ phys[1][1] = 65

(***************************************************************************)
(* Print.                                                                  *)
(***************************************************************************)
\* "hi", "%d", "%d%d", "%s"
PrintArgs ==
    {<<StrArg(<<104, 105>>)>>,
     <<IntArg(1), StrArg(<<104, 105>>)>>,
     <<IntArg(1), IntArg(2), StrArg(<<104, 105>>)>>,
     <<StrArg(<<37, 100>>), IntArg(7)>>,
     <<StrArg(<<37, 115>>), StrArg(<<104>>)>>,
     <<IntArg(2), StrArg(<<37, 100>>), IntArg(7)>>,
     <<IntArg(0), IntArg(1), StrArg(<<37, 100>>), IntArg(7)>>,
     <<StrArg(<<37, 100, 37, 100>>), IntArg(1), IntArg(2)>>,
     <<StrArg(<<37, 115, 37, 100>>), StrArg(<<104>>), IntArg(2)>>}

NextPrint ==
    \/ \E args \in PrintArgs : WindowPrint(Stdscr, args)
    \/ \E y \in 0 .. 1, x \in 0 .. 2 : Move(Stdscr, y, x)

StartPrint == AfterInit(MaxTextOps)

SpecPrint == StartPrint /\ [][NextPrint]_vars

\* the integers an argument list starts with
RECURSIVE LeadingInts(_, _)
LeadingInts(args, i) ==
    IF i > Len(args) \/ args[i].t # "int" THEN 0 ELSE 1 + LeadingInts(args, i + 1)

\* C1: for 0, 1 or 2 leading integers, then a format and its arguments, the
\* number of leading integers alone decides where Print writes (no move;
\* (y, 0); (y, x)), and the text is the format applied to the arguments
\* after it.
C1_LeadingIntegersDecidePlacement ==
    LET k == LeadingInts(last.a, 1)
    IN  (/\ last.op = "Print"
         /\ k <= 2
         /\ Len(last.a) > k
         /\ last.a[k + 1].t = "string")
        => /\ last.err = "void"
           /\ last.res.move = CASE k = 0 -> <<>>
                                 [] k = 1 -> <<last.a[1].v, 0>>
                                 [] OTHER -> <<last.a[1].v, last.a[2].v>>
           /\ last.res.text = Sprintf(last.a[k + 1].v, SubSeq(last.a, k + 2, Len(last.a)))

(***************************************************************************)
(* Reading a line.                                                         *)
(***************************************************************************)
NextInput ==
    \/ \E c \in {97, Newline} : TypeKey(c)
    \/ \E n \in 0 .. MaxLen : GetString(Stdscr, n)
    \/ GetChar(Stdscr)

StartInput == AfterInit(MaxTextOps)

SpecInput == StartInput /\ [][NextInput]_vars

\* C2: GetString(n) takes at most n characters from the input, writes them
\* and the terminator inside the n bytes it allocated, and returns a string
\* of at most n characters, for every n >= 0.
C2_GetStringStaysInBound ==
    last.op = "GetString" =>
        /\ last.err \notin {"panic", "crashed"}
        /\ last.err = "nil" =>
              /\ last.res.typed <= last.res.buflen
              /\ last.res.wrote <= last.res.buflen
              /\ Len(last.res.str) <= last.res.buflen

=============================================================================
